---------------------------- MODULE Spec2Model ----------------------------
(***************************************************************************)
(* Location gate, screen controller and live feed of the ride-hailing      *)
(* front-end (src/src/App.tsx, the geofenced App component, lines          *)
(* 686-1777).                                                              *)
(*                                                                         *)
(* Numbers.  Coordinates are integers in units of 1e-4 degree.  Angles and *)
(* the values of sin, cos, sqrt and atan are fixed-point numbers in units  *)
(* of 1e-6 (SCALE); the haversine term a is kept in units of 1e-12.  The   *)
(* distance is in units of 0.01 km, rounded to nearest.  All intermediate  *)
(* products stay below 2^31.                                               *)
(***************************************************************************)
EXTENDS Integers, Sequences, FiniteSets, TLC

(***************************************************************************)
(* Bounds of the model                                                     *)
(***************************************************************************)
MaxInFlight == 2       \* access-check geolocation requests in flight
MaxFetches == 1        \* provider (resp. hotspot) fetches in flight
MaxNotes == 1          \* change notifications awaiting delivery
MaxDrift == 1          \* largest simulated displacement, in 0.001 degree
MaxLocate == 1         \* getUserLocation requests in flight
MaxReads == 2          \* provider results read and not yet delivered

(***************************************************************************)
(* Program constants                                                       *)
(***************************************************************************)
TRICHY_CENTER == [lat |-> 108155, lng |-> 787047]
TRICHY_RADIUS_KM == 15
R == 6371
SCALE == 10^6
RADIUS_CKM == TRICHY_RADIUS_KM * 100

(***************************************************************************)
(* Fixed-point arithmetic                                                  *)
(***************************************************************************)
Abs(x) == IF x < 0 THEN -x ELSE x
Sgn(x) == IF x < 0 THEN -1 ELSE 1

\* a * b / SCALE for a, b >= 0, computed in pieces that fit 32 bits
MulU(a, b) ==
    LET ah == a \div 1000000
        al == a % 1000000
        bh == b \div 1000
        bl == b % 1000
        alh == al \div 1000
        all == al % 1000
    IN  ah * b + alh * bh
          + ((alh * bl + all * bh + ((all * bl) \div 1000)) \div 1000)

Mul(a, b) == Sgn(a) * Sgn(b) * MulU(Abs(a), Abs(b))

\* division truncating toward zero, as the sign-symmetric float division
DivT(a, b) == Sgn(a) * (Abs(a) \div b)

\* x * Math.PI / 180 : 1e-4 degree to microradian
ToRad(d) == Mul(d, 1745329)

\* Math.sin, Taylor series to x^7
Sin(x) ==
    LET x2 == Mul(x, x)
        x3 == Mul(x2, x)
        x5 == Mul(x3, x2)
        x7 == Mul(x5, x2)
    IN  x - DivT(x3, 6) + DivT(x5, 120) - DivT(x7, 5040)

\* Math.cos, Taylor series to x^8
Cos(x) ==
    LET x2 == Mul(x, x)
        x4 == Mul(x2, x2)
        x6 == Mul(x4, x2)
        x8 == Mul(x4, x4)
    IN  SCALE - DivT(x2, 2) + DivT(x4, 24) - DivT(x6, 720) + DivT(x8, 40320)

RECURSIVE SqrtSearch(_, _, _)
SqrtSearch(n, lo, hi) ==
    IF hi - lo <= 1 THEN lo
    ELSE LET mid == (lo + hi) \div 2
         IN  IF mid * mid <= n THEN SqrtSearch(n, mid, hi)
                               ELSE SqrtSearch(n, lo, mid)

\* Math.sqrt of a value in units of 1e-12, result in units of 1e-6
Sqrt(n) == SqrtSearch(n, 0, 46341)

\* Math.sqrt(1 - a) for a in units of 1e-12, result in units of 1e-6
SqrtOneMinus(a) ==
    LET h == a \div 1000000
    IN  SCALE - (h \div 2) - (MulU(h, h) \div 8)

\* Math.atan2(y, x) for 0 <= y < x, x = 1 - e
Atan2(y, x) ==
    LET e == SCALE - x
        t == y + MulU(y, e) + MulU(MulU(y, e), e)
        t3 == Mul(Mul(t, t), t)
    IN  t - (t3 \div 3)

\* the haversine term taking the cosine of the first latitude twice
calculateDistanceOneCosine(lat1, lon1, lat2, lon2) ==
    LET dLat == ToRad(lat2 - lat1)
        dLon == ToRad(lon2 - lon1)
        sLat == Sin(DivT(dLat, 2))
        sLon == Sin(DivT(dLon, 2))
        a == sLat * sLat
               + MulU(sLon * sLon, Mul(Cos(ToRad(lat1)), Cos(ToRad(lat1))))
        c == 2 * Atan2(Sqrt(a), SqrtOneMinus(a))
    IN  (R * c + 5000) \div 10000

\* Haversine distance in 0.01 km
calculateDistance(lat1, lon1, lat2, lon2) ==
    LET dLat == ToRad(lat2 - lat1)
        dLon == ToRad(lon2 - lon1)
        sLat == Sin(DivT(dLat, 2))
        sLon == Sin(DivT(dLon, 2))
        a == sLat * sLat
               + MulU(sLon * sLon, Mul(Cos(ToRad(lat1)), Cos(ToRad(lat2))))
        c == 2 * Atan2(Sqrt(a), SqrtOneMinus(a))
    IN  (R * c + 5000) \div 10000

\* distance <= TRICHY_RADIUS_KM (App.tsx:861), both sides in 0.01 km
IsWithinServiceAreaStrict(distance) == distance < RADIUS_CKM
IsWithinServiceArea(distance) == distance <= RADIUS_CKM

(***************************************************************************)
(* Input domains                                                           *)
(***************************************************************************)
\* Device positions a geolocation response may carry: the centre, a point
\* about 4 km away, a point on the boundary at the model's resolution, the
\* next grid point north of it, a point about 21.8 km east, and Bangalore.
Positions ==
    { TRICHY_CENTER,
      [lat |-> 108500, lng |-> 787200],
      [lat |-> 109504, lng |-> 787047],
      [lat |-> 109505, lng |-> 787047],
      [lat |-> 108155, lng |-> 789047],
      [lat |-> 129716, lng |-> 775946] }

NoPosition == [lat |-> 0, lng |-> 0]

\* Points on which the distance function is measured: the device positions,
\* the grid neighbours of the centre, and points up to about 300 km away on
\* every side of it.
ProbePoints ==
    Positions \cup
    { [lat |-> 108155, lng |-> 787048],
      [lat |-> 108156, lng |-> 787047],
      [lat |-> 108154, lng |-> 787046],
      [lat |-> 107000, lng |-> 786000],
      [lat |-> 110000, lng |-> 790000],
      [lat |-> 100000, lng |-> 780000],
      [lat |-> 120000, lng |-> 770000],
      [lat |-> 93000, lng |-> 779000] }

\* no distance measured yet
NotMeasured == 0 - 1

NoProbe == [a |-> NoPosition, b |-> NoPosition, ab |-> NotMeasured,
            ba |-> NotMeasured, aa |-> NotMeasured, inside |-> FALSE]

\* GeolocationPositionError codes
GeoErrorCodes == {"PERMISSION_DENIED", "POSITION_UNAVAILABLE", "TIMEOUT"}

Screens == {"checking", "blocked", "splash", "onboarding", "map",
            "destination", "providers", "confirmation"}

\* screens that render <DemoBanner /> (App.tsx:1238, 1274, 1341, 1573, 1644, 1699)
PastGate == {"splash", "onboarding", "map", "destination", "providers",
             "confirmation"}

\* ids of the rows of the backing store's tables
StoreProviders == {"p1", "p2"}
StoreHotspots == {"h1"}

\* selectedProvider === null; a provider row is [id, lat, lng] with the
\* coordinates in 0.001 degree relative to the row's first position
NoProvider == [id |-> "null", lat |-> 0, lng |-> 0]

\* providers whose is_online is changed by other clients of the store
ExternalProviders == {"p2"}

\* select('*').eq('is_online', true) on a providers table
OnlineRows(table) ==
    { [id |-> p, lat |-> table[p].lat, lng |-> table[p].lng] :
        p \in {q \in StoreProviders : table[q].is_online} }

\* calculateDistance(latitude, longitude, TRICHY_CENTER.lat, TRICHY_CENTER.lng),
\* tabulated over the input domain
DistanceTable ==
    [pos \in Positions |->
        calculateDistance(pos.lat, pos.lng,
                          TRICHY_CENTER.lat, TRICHY_CENTER.lng)]

DistanceToCentre(pos) == DistanceTable[pos]

(***************************************************************************)
(* State                                                                   *)
(***************************************************************************)
VARIABLES
    mounted,              \* the component has mounted and run its mount effect
    demoParam,            \* URL parameter demo=true of this launch
    geoSupported,         \* 'geolocation' in navigator
    storedFlag,           \* localStorage jammDemoMode === 'true'
    currentScreen,
    demoMode,
    locationChecked,
    showProviderMovement,
    selectedProvider,
    providers,            \* local provider snapshot
    hotspots,             \* local hotspot snapshot
    loading,
    geoPending,           \* access-check getCurrentPosition calls in flight
    provFetches,          \* fetchProviders calls awaiting their response
    hotFetches,           \* fetchHotspots calls awaiting their response
    splashTimer,          \* the 2 s splash timeout is armed
    subs,                 \* open 'provider-changes' channels
    simTimers,            \* armed movement-simulation intervals
    userLocation,         \* NoPosition stands for null
    locPending,           \* getUserLocation getCurrentPosition calls in flight
    store,                \* the providers table of the backing store
    notes,                \* change notifications on their way to the channel
    simBatch,             \* rows the running simulation tick has still to write
    checkRan,             \* history: the last step ran checkLocation
    verdict,              \* history: outcome of the last completed access check
    lastDemoAction,       \* history: last of opt-in / exit-demo, over all launches
    lastEvent,            \* history: the step that produced this state
    probe,                \* two points and the distances measured on them
    provReads             \* results read for fetchProviders calls, on their way back

vars == <<mounted, demoParam, geoSupported, storedFlag, currentScreen,
          demoMode, locationChecked, showProviderMovement, selectedProvider,
          providers, hotspots, loading, geoPending, provFetches, hotFetches,
          splashTimer, subs, simTimers, userLocation, locPending,
          store, notes, simBatch, checkRan, verdict, lastDemoAction,
          lastEvent, probe, provReads>>

Event(op, arg, pos, issued) ==
    [op |-> op, arg |-> arg, pos |-> pos, prevScreen |-> currentScreen,
     prevDemo |-> demoMode, prevFlag |-> storedFlag,
     prevPending |-> Len(geoPending), prevSelected |-> selectedProvider.id,
     issuedOn |-> issued]

\* the component's state after construction (App.tsx:766-777)
AppInit ==
    /\ mounted = FALSE
    /\ demoParam \in BOOLEAN
    /\ geoSupported \in BOOLEAN
    /\ storedFlag \in BOOLEAN
    /\ currentScreen = "checking"
    /\ demoMode = FALSE
    /\ locationChecked = FALSE
    /\ showProviderMovement = FALSE
    /\ selectedProvider = NoProvider
    /\ providers = {}
    /\ hotspots = {}
    /\ loading = TRUE
    /\ geoPending = <<>>
    /\ provFetches = 0
    /\ provReads = <<>>
    /\ hotFetches = 0
    /\ splashTimer = FALSE
    /\ subs = 0
    /\ simTimers = 0
    /\ userLocation = NoPosition
    /\ locPending = 0
    /\ store = [p \in StoreProviders |->
                  [is_online |-> p \notin ExternalProviders,
                   lat |-> 0, lng |-> 0]]
    /\ notes = 0
    /\ simBatch = <<>>
    /\ checkRan = FALSE
    /\ verdict = "none"
    /\ lastDemoAction = "none"
    /\ lastEvent = [op |-> "Init", arg |-> "", pos |-> NoPosition,
                    prevScreen |-> "checking", prevDemo |-> FALSE,
                    prevFlag |-> storedFlag, prevPending |-> 0,
                    prevSelected |-> NoProvider.id, issuedOn |-> ""]

Init == AppInit /\ probe = NoProbe

(***************************************************************************)
(* Effects that follow a state change (useEffect with dependencies)        *)
(***************************************************************************)
\* the data effect without the test of the blocked screen
FetchEffectAlsoOnBlocked(scr, lc) ==
    IF (scr # currentScreen \/ lc # locationChecked) /\ lc
    THEN /\ provFetches < MaxFetches
         /\ hotFetches < MaxFetches
         /\ provFetches' = provFetches + 1
         /\ hotFetches' = hotFetches + 1
    ELSE UNCHANGED <<provFetches, hotFetches>>

\* the data effect with deps [locationChecked] only
FetchEffectOnGateOnly(scr, lc) ==
    IF lc # locationChecked /\ lc /\ scr # "blocked"
    THEN /\ provFetches < MaxFetches
         /\ hotFetches < MaxFetches
         /\ provFetches' = provFetches + 1
         /\ hotFetches' = hotFetches + 1
    ELSE UNCHANGED <<provFetches, hotFetches>>

\* useEffect(fetch data), deps [locationChecked, currentScreen]
FetchEffect(scr, lc) ==
    IF (scr # currentScreen \/ lc # locationChecked) /\ lc /\ scr # "blocked"
    THEN /\ provFetches < MaxFetches
         /\ hotFetches < MaxFetches
         /\ provFetches' = provFetches + 1
         /\ hotFetches' = hotFetches + 1
    ELSE UNCHANGED <<provFetches, hotFetches>>

\* the splash effect arming no timer
SplashEffectNoTimer(scr) ==
    splashTimer' = IF scr = currentScreen THEN splashTimer ELSE FALSE

\* the splash effect without its cleanup: the timer outlives the screen
SplashEffectNoCleanup(scr) ==
    splashTimer' = IF scr = currentScreen THEN splashTimer
                   ELSE splashTimer \/ scr = "splash"

\* useEffect(splash auto-advance), deps [currentScreen]
SplashEffect(scr) ==
    splashTimer' = IF scr = currentScreen THEN splashTimer ELSE scr = "splash"

\* the subscription effect returning no cleanup: channels are never removed
SubCleanupNone(scr) == IF scr \in {"blocked", "checking"} THEN 0 ELSE 0

\* cleanup of useEffect(real-time subscriptions): removeChannel, returned
\* only by a run that subscribed
SubCleanup(scr) == IF scr \in {"blocked", "checking"} THEN 0 ELSE 1

\* useEffect(real-time subscriptions), deps [currentScreen]
\* a removed channel delivers nothing: notifications under way are dropped
SubEffect(scr) ==
    /\ subs' = IF scr = currentScreen
               THEN subs
               ELSE (subs - SubCleanup(currentScreen))
                      + (IF scr \in {"blocked", "checking"} THEN 0 ELSE 1)
    /\ notes' = IF scr = currentScreen THEN notes ELSE 0

\* getUserLocation (App.tsx:779-802)
getUserLocation ==
    IF geoSupported
    THEN /\ locPending < MaxLocate
         /\ locPending' = locPending + 1
         /\ UNCHANGED userLocation
    ELSE /\ userLocation' = TRICHY_CENTER
         /\ UNCHANGED locPending

\* useEffect(request location when map loads), deps [currentScreen]
LocateEffect(scr) ==
    IF scr # currentScreen /\ scr = "map" /\ userLocation = NoPosition
    THEN getUserLocation
    ELSE UNCHANGED <<userLocation, locPending>>

\* the movement effect returning no cleanup: intervals are never cleared
MoveCleanupNone(spm, provs) == IF spm /\ provs # {} THEN 0 ELSE 0

\* cleanup of useEffect(provider movement simulation): clearInterval, returned
\* only by a run that armed the interval
MoveCleanup(spm, provs) == IF spm /\ provs # {} THEN 1 ELSE 0

\* the movement effect with deps [showProviderMovement] only
MoveEffectIgnoresSnapshot(spm, provs, replaced) ==
    simTimers' = IF spm = showProviderMovement
                 THEN simTimers
                 ELSE (simTimers - MoveCleanup(showProviderMovement, providers))
                        + (IF spm /\ provs # {} THEN 1 ELSE 0)

\* useEffect(provider movement simulation), deps [showProviderMovement,
\* providers]; replaced tells that setProviders stored a new array
MoveEffect(spm, provs, replaced) ==
    simTimers' = IF spm = showProviderMovement /\ ~replaced
                 THEN simTimers
                 ELSE (simTimers - MoveCleanup(showProviderMovement, providers))
                        + (IF spm /\ provs # {} THEN 1 ELSE 0)

\* the effects with currentScreen or locationChecked among their deps
ScreenEffects(scr, lc) ==
    /\ FetchEffect(scr, lc)
    /\ SplashEffect(scr)
    /\ SubEffect(scr)
    /\ LocateEffect(scr)

\* effects after a step that leaves showProviderMovement and providers alone
Effects(scr, lc) ==
    /\ ScreenEffects(scr, lc)
    /\ MoveEffect(showProviderMovement, providers, FALSE)

(***************************************************************************)
(* Access controller                                                       *)
(***************************************************************************)
\* demoParam === 'true' || savedDemoMode
DemoOverrideParamOnly(param, flag) == param
DemoOverride(param, flag) == param \/ flag

\* if (demoParam === 'true') localStorage.setItem('jammDemoMode', 'true')
FlagAfterDemoBranchNoPersist(param, flag) == flag
FlagAfterDemoBranch(param, flag) == IF param THEN TRUE ELSE flag

\* success callback of the access check
SuccessScreen(pos) ==
    IF IsWithinServiceArea(DistanceToCentre(pos)) THEN "splash" ELSE "blocked"

\* error callback of the access check
\* an error callback that only logs and leaves the screen alone
ErrorScreenStaysChecking(code) == "checking"
ErrorScreenTimeoutPasses(code) == IF code = "TIMEOUT" THEN "splash" ELSE "blocked"
ErrorScreen(code) == "blocked"

\* checkLocation, called with the localStorage value and the demoMode value
\* its caller leaves behind
checkLocation(flag, dm) ==
    IF DemoOverride(demoParam, flag)
    THEN /\ checkRan' = TRUE
         /\ storedFlag' = FlagAfterDemoBranch(demoParam, flag)
         /\ demoMode' = TRUE
         /\ locationChecked' = TRUE
         /\ currentScreen' = "splash"
         /\ UNCHANGED <<geoPending, verdict>>
         /\ Effects("splash", TRUE)
    ELSE IF geoSupported
    THEN /\ checkRan' = TRUE
         /\ Len(geoPending) < MaxInFlight
         /\ geoPending' = Append(geoPending, [issuedOn |-> currentScreen])
         /\ storedFlag' = flag
         /\ demoMode' = dm
         /\ UNCHANGED <<locationChecked, currentScreen, verdict>>
         /\ Effects(currentScreen, locationChecked)
    ELSE /\ checkRan' = TRUE
         /\ storedFlag' = flag
         /\ demoMode' = dm
         /\ locationChecked' = TRUE
         /\ currentScreen' = "blocked"
         /\ verdict' = "unsupported"
         /\ UNCHANGED geoPending
         /\ Effects("blocked", TRUE)

\* the mount effect without its empty dependency list: runs after every render
MountEveryRender ==
    /\ mounted' = TRUE
    /\ checkLocation(storedFlag, demoMode)
    /\ lastEvent' = Event("Mount", "", NoPosition, "")
    /\ UNCHANGED <<probe, provReads, store, simBatch, demoParam, geoSupported,
                   showProviderMovement, selectedProvider, providers,
                   hotspots, loading, lastDemoAction>>

\* useEffect(check location on mount)
Mount ==
    /\ ~mounted
    /\ mounted' = TRUE
    /\ checkLocation(storedFlag, demoMode)
    /\ lastEvent' = Event("Mount", "", NoPosition, "")
    /\ UNCHANGED <<probe, provReads, store, simBatch, demoParam, geoSupported,
                   showProviderMovement, selectedProvider, providers,
                   hotspots, loading, lastDemoAction>>

RemoveAt(seq, i) == SubSeq(seq, 1, i - 1) \o SubSeq(seq, i + 1, Len(seq))

\* getCurrentPosition success callback (App.tsx:848-872)
GeoSuccess(i, pos) ==
    /\ i \in 1..Len(geoPending)
    /\ geoPending' = RemoveAt(geoPending, i)
    /\ locationChecked' = TRUE
    /\ currentScreen' = SuccessScreen(pos)
    /\ verdict' = IF IsWithinServiceArea(DistanceToCentre(pos))
                  THEN "inside" ELSE "outside"
    /\ Effects(SuccessScreen(pos), TRUE)
    /\ lastEvent' = Event("GeoSuccess", "", pos, geoPending[i].issuedOn)
    /\ checkRan' = FALSE
    /\ UNCHANGED <<probe, provReads,
                   store, simBatch, mounted, demoParam, geoSupported,
                   storedFlag, demoMode, showProviderMovement,
                   selectedProvider, providers, hotspots, loading,
                   lastDemoAction>>

\* getCurrentPosition error callback (App.tsx:873-880)
GeoError(i, code) ==
    /\ i \in 1..Len(geoPending)
    /\ geoPending' = RemoveAt(geoPending, i)
    /\ locationChecked' = TRUE
    /\ currentScreen' = ErrorScreen(code)
    /\ verdict' = "failed"
    /\ Effects(ErrorScreen(code), TRUE)
    /\ lastEvent' = Event("GeoError", code, NoPosition, geoPending[i].issuedOn)
    /\ checkRan' = FALSE
    /\ UNCHANGED <<probe, provReads,
                   store, simBatch, mounted, demoParam, geoSupported,
                   storedFlag, demoMode, showProviderMovement,
                   selectedProvider, providers, hotspots, loading,
                   lastDemoAction>>

\* "Try Demo Version" on the blocked screen
enableDemoModeNoPersist ==
    /\ currentScreen = "blocked"
    /\ demoMode' = TRUE
    /\ currentScreen' = "splash"
    /\ Effects("splash", locationChecked)
    /\ lastDemoAction' = "optin"
    /\ lastEvent' = Event("enableDemoMode", "", NoPosition, "")
    /\ checkRan' = FALSE
    /\ UNCHANGED <<probe, provReads,
                   store, simBatch, mounted, demoParam, geoSupported,
                   storedFlag, locationChecked, showProviderMovement,
                   selectedProvider, providers, hotspots, loading, geoPending,
                   verdict>>

enableDemoMode ==
    /\ currentScreen = "blocked"
    /\ storedFlag' = TRUE
    /\ demoMode' = TRUE
    /\ currentScreen' = "splash"
    /\ Effects("splash", locationChecked)
    /\ lastDemoAction' = "optin"
    /\ lastEvent' = Event("enableDemoMode", "", NoPosition, "")
    /\ checkRan' = FALSE
    /\ UNCHANGED <<probe, provReads,
                   store, simBatch, mounted, demoParam, geoSupported,
                   locationChecked, showProviderMovement, selectedProvider,
                   providers, hotspots, loading, geoPending, verdict>>

\* DemoBanner renders its "Exit Demo" button only in demo mode
DemoBannerAlways(dm) == TRUE
DemoBannerVisible(dm) == dm

\* exit-demo without setDemoMode(false)
exitDemoModeKeepsIndicator ==
    /\ currentScreen \in PastGate
    /\ DemoBannerVisible(demoMode)
    /\ checkLocation(FALSE, demoMode)
    /\ lastDemoAction' = "exit"
    /\ lastEvent' = Event("exitDemoMode", "", NoPosition, "")
    /\ UNCHANGED <<probe, provReads, store, simBatch, mounted, demoParam,
                   geoSupported, showProviderMovement, selectedProvider,
                   providers, hotspots, loading>>

\* "Exit Demo" on any screen past the gate
exitDemoMode ==
    /\ currentScreen \in PastGate
    /\ DemoBannerVisible(demoMode)
    /\ checkLocation(FALSE, FALSE)
    /\ lastDemoAction' = "exit"
    /\ lastEvent' = Event("exitDemoMode", "", NoPosition, "")
    /\ UNCHANGED <<probe, provReads,
                   store, simBatch, mounted, demoParam, geoSupported,
                   showProviderMovement, selectedProvider, providers,
                   hotspots, loading>>

(***************************************************************************)
(* Screen controller                                                       *)
(***************************************************************************)
\* the goToScreen calls each screen renders (onClick handlers)
\* the back arrow of the providers screen returning to the map
NavTargetsBackToMap(from) ==
    CASE from = "onboarding" -> {"map"}
      [] from = "map" -> {"destination"}
                           \cup (IF hotspots # {} THEN {"providers"} ELSE {})
      [] from = "destination" -> {"map", "providers"}
      [] from = "providers" -> {"map"}
      [] from = "confirmation" -> {"map"}
      [] OTHER -> {}

\* a Providers screen that can also be left for map
NavTargetsProvidersToMapToo(from) ==
    CASE from = "onboarding" -> {"map"}
      [] from = "map" -> {"destination"}
                           \cup (IF hotspots # {} THEN {"providers"} ELSE {})
      [] from = "destination" -> {"map", "providers"}
      [] from = "providers" -> {"destination", "map"}
      [] from = "confirmation" -> {"map"}
      [] OTHER -> {}

NavTargets(from) ==
    CASE from = "onboarding" -> {"map"}
      [] from = "map" -> {"destination"}
                           \cup (IF hotspots # {} THEN {"providers"} ELSE {})
      [] from = "destination" -> {"map", "providers"}
      [] from = "providers" -> {"destination"}
      [] from = "confirmation" -> {"map"}
      [] OTHER -> {}

goToScreen(screen) ==
    /\ screen \in NavTargets(currentScreen)
    /\ showProviderMovement' = (screen = "map")
    /\ currentScreen' = screen
    /\ ScreenEffects(screen, locationChecked)
    /\ MoveEffect(screen = "map", providers, FALSE)
    /\ lastEvent' = Event("goToScreen", screen, NoPosition, "")
    /\ checkRan' = FALSE
    /\ UNCHANGED <<probe, provReads,
                   store, simBatch, mounted, demoParam, geoSupported,
                   storedFlag, demoMode, locationChecked, selectedProvider,
                   providers, hotspots, loading, geoPending, verdict,
                   lastDemoAction>>

\* a booking that selects only when nothing is selected yet
bookRideKeepsSelection(provider) ==
    /\ currentScreen \in {"map", "providers"}
    /\ provider \in providers
    /\ selectedProvider' = IF selectedProvider = NoProvider THEN provider
                         ELSE selectedProvider
    /\ currentScreen' = "confirmation"
    /\ Effects("confirmation", locationChecked)
    /\ lastEvent' = Event("bookRide", provider.id, NoPosition, "")
    /\ checkRan' = FALSE
    /\ UNCHANGED <<probe, provReads,
                   store, simBatch, mounted, demoParam, geoSupported,
                   storedFlag, demoMode, locationChecked,
                   showProviderMovement, providers, hotspots, loading,
                   geoPending, verdict, lastDemoAction>>

\* provider marker popup on map, provider card on providers
bookRide(provider) ==
    /\ currentScreen \in {"map", "providers"}
    /\ provider \in providers
    /\ selectedProvider' = provider
    /\ currentScreen' = "confirmation"
    /\ Effects("confirmation", locationChecked)
    /\ lastEvent' = Event("bookRide", provider.id, NoPosition, "")
    /\ checkRan' = FALSE
    /\ UNCHANGED <<probe, provReads,
                   store, simBatch, mounted, demoParam, geoSupported,
                   storedFlag, demoMode, locationChecked,
                   showProviderMovement, providers, hotspots, loading,
                   geoPending, verdict, lastDemoAction>>

\* setTimeout(() => setCurrentScreen('onboarding'), 2000)
SplashTimeout ==
    /\ splashTimer
    /\ currentScreen' = "onboarding"
    /\ Effects("onboarding", locationChecked)
    /\ lastEvent' = Event("SplashTimeout", "", NoPosition, "")
    /\ checkRan' = FALSE
    /\ UNCHANGED <<probe, provReads,
                   store, simBatch, mounted, demoParam, geoSupported,
                   storedFlag, demoMode, locationChecked,
                   showProviderMovement, selectedProvider, providers,
                   hotspots, loading, geoPending, verdict, lastDemoAction>>

(***************************************************************************)
(* Live feed: completion of the fetches                                    *)
(***************************************************************************)
\* fetchProviders adding the rows it read to the snapshot
fetchProvidersDoneMerges(ok) ==
    /\ provFetches > 0
    /\ provFetches' = provFetches - 1
    /\ providers' = IF ok THEN providers \cup OnlineRows(store) ELSE providers
    /\ MoveEffect(showProviderMovement,
                  IF ok THEN providers \cup OnlineRows(store) ELSE providers,
                  ok)
    /\ lastEvent' = Event("fetchProvidersDone", IF ok THEN "ok" ELSE "error",
                          NoPosition, "")
    /\ checkRan' = FALSE
    /\ UNCHANGED <<probe, provReads,
                   mounted, demoParam, geoSupported, storedFlag,
                   currentScreen, demoMode, locationChecked,
                   showProviderMovement, selectedProvider, hotspots, loading,
                   geoPending, hotFetches, splashTimer, subs, userLocation,
                   locPending, store, notes, simBatch, verdict,
                   lastDemoAction>>

\* a response that also looks the selected provider up in the new snapshot
fetchProvidersDoneRefreshesSelection(ok) ==
    /\ provFetches > 0
    /\ provFetches' = provFetches - 1
    /\ providers' = IF ok THEN OnlineRows(store) ELSE providers
    /\ selectedProvider' =
         IF ok /\ selectedProvider # NoProvider
         THEN IF \E r \in OnlineRows(store) : r.id = selectedProvider.id
              THEN CHOOSE r \in OnlineRows(store) : r.id = selectedProvider.id
              ELSE NoProvider
         ELSE selectedProvider
    /\ MoveEffect(showProviderMovement,
                  IF ok THEN OnlineRows(store) ELSE providers, ok)
    /\ lastEvent' = Event("fetchProvidersDone", IF ok THEN "ok" ELSE "error",
                          NoPosition, "")
    /\ checkRan' = FALSE
    /\ UNCHANGED <<probe, provReads, mounted, demoParam, geoSupported,
                   storedFlag, currentScreen, demoMode, locationChecked,
                   showProviderMovement, hotspots, loading, geoPending,
                   hotFetches, splashTimer, subs, userLocation, locPending,
                   store, notes, simBatch, verdict, lastDemoAction>>

\* fetchProviders' response (App.tsx:960-972): setProviders(data) on data,
\* the snapshot kept on an error
fetchProvidersDone(ok) ==
    /\ provFetches > 0
    /\ provFetches' = provFetches - 1
    /\ providers' = IF ok THEN OnlineRows(store) ELSE providers
    /\ MoveEffect(showProviderMovement,
                  IF ok THEN OnlineRows(store) ELSE providers, ok)
    /\ lastEvent' = Event("fetchProvidersDone", IF ok THEN "ok" ELSE "error",
                          NoPosition, "")
    /\ checkRan' = FALSE
    /\ UNCHANGED <<probe, provReads,
                   mounted, demoParam, geoSupported, storedFlag, currentScreen,
                   demoMode, locationChecked, showProviderMovement,
                   selectedProvider, hotspots, loading, geoPending, hotFetches,
                   splashTimer, subs, userLocation, locPending, store, notes,
                   simBatch, verdict, lastDemoAction>>

\* setLoading(false) at the end of the try block instead of in finally
fetchHotspotsDoneKeepsLoadingOnError(ok) ==
    /\ hotFetches > 0
    /\ hotFetches' = hotFetches - 1
    /\ hotspots' = IF ok THEN StoreHotspots ELSE hotspots
    /\ loading' = IF ok THEN FALSE ELSE loading
    /\ lastEvent' = Event("fetchHotspotsDone", IF ok THEN "ok" ELSE "error",
                          NoPosition, "")
    /\ checkRan' = FALSE
    /\ UNCHANGED <<probe, provReads,
                   mounted, demoParam, geoSupported, storedFlag, currentScreen,
                   demoMode, locationChecked, showProviderMovement,
                   selectedProvider, providers, geoPending, provFetches,
                   splashTimer, subs, simTimers, userLocation, locPending,
                   store, notes, simBatch, verdict, lastDemoAction>>

\* setHotspots(data || []) outside the error check: a failure empties the list
fetchHotspotsDoneClearsOnError(ok) ==
    /\ hotFetches > 0
    /\ hotFetches' = hotFetches - 1
    /\ hotspots' = IF ok THEN StoreHotspots ELSE {}
    /\ loading' = FALSE
    /\ lastEvent' = Event("fetchHotspotsDone", IF ok THEN "ok" ELSE "error",
                          NoPosition, "")
    /\ checkRan' = FALSE
    /\ UNCHANGED <<probe, provReads,
                   mounted, demoParam, geoSupported, storedFlag, currentScreen,
                   demoMode, locationChecked, showProviderMovement,
                   selectedProvider, providers, geoPending, provFetches,
                   splashTimer, subs, simTimers, userLocation, locPending,
                   store, notes, simBatch, verdict, lastDemoAction>>

\* fetchHotspots from its await on
fetchHotspotsDone(ok) ==
    /\ hotFetches > 0
    /\ hotFetches' = hotFetches - 1
    /\ hotspots' = IF ok THEN StoreHotspots ELSE hotspots
    /\ loading' = FALSE
    /\ lastEvent' = Event("fetchHotspotsDone", IF ok THEN "ok" ELSE "error",
                          NoPosition, "")
    /\ checkRan' = FALSE
    /\ UNCHANGED <<probe, provReads,
                   mounted, demoParam, geoSupported, storedFlag, currentScreen,
                   demoMode, locationChecked, showProviderMovement,
                   selectedProvider, providers, geoPending, provFetches,
                   splashTimer, subs, simTimers, userLocation, locPending,
                   store, notes, simBatch, verdict, lastDemoAction>>

(***************************************************************************)
(* Live feed: change notifications                                         *)
(***************************************************************************)
\* a committed change of the providers table reaches every open channel
NotesAfterChange == IF subs > 0 THEN notes + 1 ELSE notes

\* another client of the store updates a provider's row
StoreChange(p, online) ==
    /\ p \in ExternalProviders
    /\ NotesAfterChange <= MaxNotes
    /\ store' = [store EXCEPT ![p].is_online = online]
    /\ notes' = NotesAfterChange
    /\ lastEvent' = Event("StoreChange", p, NoPosition, "")
    /\ checkRan' = FALSE
    /\ UNCHANGED <<probe, provReads,
                   mounted, demoParam, geoSupported, storedFlag, currentScreen,
                   demoMode, locationChecked, showProviderMovement,
                   selectedProvider, providers, hotspots, loading, geoPending,
                   provFetches, hotFetches, splashTimer, subs, simTimers,
                   userLocation, locPending, simBatch, verdict,
                   lastDemoAction>>

\* a subscription callback refreshing both snapshots, as the fetch effect does
NotifyFetchesAll ==
    /\ notes > 0
    /\ subs > 0
    /\ notes' = notes - 1
    /\ provFetches < MaxFetches
    /\ hotFetches < MaxFetches
    /\ provFetches' = provFetches + 1
    /\ hotFetches' = hotFetches + 1
    /\ lastEvent' = Event("Notify", "", NoPosition, "")
    /\ checkRan' = FALSE
    /\ UNCHANGED <<probe, provReads,
                   mounted, demoParam, geoSupported, storedFlag, currentScreen,
                   demoMode, locationChecked, showProviderMovement,
                   selectedProvider, providers, hotspots, loading, geoPending,
                   splashTimer, subs, simTimers, userLocation, locPending,
                   store, simBatch, verdict, lastDemoAction>>

\* subscription callback: fetchProviders()
Notify ==
    /\ notes > 0
    /\ subs > 0
    /\ notes' = notes - 1
    /\ provFetches < MaxFetches
    /\ provFetches' = provFetches + 1
    /\ lastEvent' = Event("Notify", "", NoPosition, "")
    /\ checkRan' = FALSE
    /\ UNCHANGED <<probe, provReads,
                   mounted, demoParam, geoSupported, storedFlag, currentScreen,
                   demoMode, locationChecked, showProviderMovement,
                   selectedProvider, providers, hotspots, loading, geoPending,
                   hotFetches, splashTimer, subs, simTimers, userLocation,
                   locPending, store, simBatch, verdict, lastDemoAction>>

(***************************************************************************)
(* Movement simulator                                                      *)
(***************************************************************************)
\* (Math.random() - 0.5) * 0.002 per axis, in 0.001 degree
Deltas == {[lat |-> a, lng |-> b] : a \in {-1, 0, 1}, b \in {-1, 0, 1}}

\* the draw Math.random() = 0.5 on both axes
NoDrift == {[lat |-> 0, lng |-> 0]}

\* the order in which the store returns the rows of the providers table
ProviderOrder == <<"p1", "p2">>

\* for (const provider of providers): the snapshot's rows in that order
RECURSIVE RowSeq(_, _)
RowSeq(rows, i) ==
    IF i > Len(ProviderOrder) THEN <<>>
    ELSE LET here == {r \in rows : r.id = ProviderOrder[i]}
         IN  (IF here = {} THEN <<>> ELSE <<CHOOSE r \in here : TRUE>>)
               \o RowSeq(rows, i + 1)

\* the tick iterating over the store's online rows
SimTickStoreRows ==
    /\ simTimers > 0
    /\ simBatch = <<>>
    /\ simBatch' = RowSeq(OnlineRows(store), 1)
    /\ lastEvent' = Event("SimTick", "", NoPosition, "")
    /\ checkRan' = FALSE
    /\ UNCHANGED <<probe, provReads,
                   mounted, demoParam, geoSupported, storedFlag,
                   currentScreen, demoMode, locationChecked,
                   showProviderMovement, selectedProvider, providers,
                   hotspots, loading, geoPending, provFetches, hotFetches,
                   splashTimer, subs, simTimers, userLocation, locPending,
                   store, notes, verdict, lastDemoAction>>

\* setInterval callback: simulateProviderMovement starts on the snapshot of
\* the render that armed the interval; a tick waits for the previous batch
SimTick ==
    /\ simTimers > 0
    /\ simBatch = <<>>
    /\ simBatch' = RowSeq(providers, 1)
    /\ lastEvent' = Event("SimTick", "", NoPosition, "")
    /\ checkRan' = FALSE
    /\ UNCHANGED <<probe, provReads,
                   mounted, demoParam, geoSupported, storedFlag, currentScreen,
                   demoMode, locationChecked, showProviderMovement,
                   selectedProvider, providers, hotspots, loading, geoPending,
                   provFetches, hotFetches, splashTimer, subs, simTimers,
                   userLocation, locPending, store, notes, verdict,
                   lastDemoAction>>

\* a failed update rejecting its promise: the catch around the loop ends the
\* batch
SimWriteAbortsOnError(ok, d) ==
    /\ simBatch # <<>>
    /\ LET row == Head(simBatch)
           lat == row.lat + d.lat
           lng == row.lng + d.lng
       IN  IF ok
           THEN /\ lat \in -MaxDrift..MaxDrift
                /\ lng \in -MaxDrift..MaxDrift
                /\ NotesAfterChange <= MaxNotes
                /\ store' = [store EXCEPT ![row.id].lat = lat,
                                          ![row.id].lng = lng]
                /\ notes' = NotesAfterChange
           ELSE UNCHANGED <<store, notes>>
    /\ simBatch' = IF ok THEN Tail(simBatch) ELSE <<>>
    /\ lastEvent' = Event(IF ok THEN "SimWrite" ELSE "SimWriteError",
                          Head(simBatch).id, NoPosition, "")
    /\ checkRan' = FALSE
    /\ UNCHANGED <<probe, provReads,
                   mounted, demoParam, geoSupported, storedFlag, currentScreen,
                   demoMode, locationChecked, showProviderMovement,
                   selectedProvider, providers, hotspots, loading, geoPending,
                   provFetches, hotFetches, splashTimer, subs, simTimers,
                   userLocation, locPending, verdict, lastDemoAction>>

\* one iteration of the loop: await update({latitude, longitude}).eq('id', id);
\* a failed update resolves with an error and the loop goes on
SimWrite(ok, d) ==
    /\ simBatch # <<>>
    /\ LET row == Head(simBatch)
           lat == row.lat + d.lat
           lng == row.lng + d.lng
       IN  IF ok
           THEN /\ lat \in -MaxDrift..MaxDrift
                /\ lng \in -MaxDrift..MaxDrift
                /\ NotesAfterChange <= MaxNotes
                /\ store' = [store EXCEPT ![row.id].lat = lat,
                                          ![row.id].lng = lng]
                /\ notes' = NotesAfterChange
           ELSE UNCHANGED <<store, notes>>
    /\ simBatch' = Tail(simBatch)
    /\ lastEvent' = Event(IF ok THEN "SimWrite" ELSE "SimWriteError",
                          Head(simBatch).id, NoPosition, "")
    /\ checkRan' = FALSE
    /\ UNCHANGED <<probe, provReads,
                   mounted, demoParam, geoSupported, storedFlag, currentScreen,
                   demoMode, locationChecked, showProviderMovement,
                   selectedProvider, providers, hotspots, loading, geoPending,
                   provFetches, hotFetches, splashTimer, subs, simTimers,
                   userLocation, locPending, verdict, lastDemoAction>>

(***************************************************************************)
(* The map's own locate request                                            *)
(***************************************************************************)
\* positions a locate response may carry
LocatePositions ==
    { [lat |-> 108500, lng |-> 787200] }

\* "Locate Me" button on the map screen
LocateMe ==
    /\ currentScreen = "map"
    /\ getUserLocation
    /\ lastEvent' = Event("LocateMe", "", NoPosition, "")
    /\ checkRan' = FALSE
    /\ UNCHANGED <<probe, provReads,
                   mounted, demoParam, geoSupported, storedFlag, currentScreen,
                   demoMode, locationChecked, showProviderMovement,
                   selectedProvider, providers, hotspots, loading, geoPending,
                   provFetches, hotFetches, splashTimer, subs, simTimers,
                   store, notes, simBatch, verdict, lastDemoAction>>

\* success callback of getUserLocation (App.tsx:782-787)
LocateSuccess(pos) ==
    /\ locPending > 0
    /\ locPending' = locPending - 1
    /\ userLocation' = pos
    /\ lastEvent' = Event("LocateSuccess", "", pos, "")
    /\ checkRan' = FALSE
    /\ UNCHANGED <<probe, provReads,
                   mounted, demoParam, geoSupported, storedFlag, currentScreen,
                   demoMode, locationChecked, showProviderMovement,
                   selectedProvider, providers, hotspots, loading, geoPending,
                   provFetches, hotFetches, splashTimer, subs, simTimers,
                   store, notes, simBatch, verdict, lastDemoAction>>

\* an error callback that only logs
LocateErrorKeepsUnknown ==
    /\ locPending > 0
    /\ locPending' = locPending - 1
    /\ userLocation' = userLocation
    /\ lastEvent' = Event("LocateError", "", NoPosition, "")
    /\ checkRan' = FALSE
    /\ UNCHANGED <<probe, provReads, mounted, demoParam, geoSupported,
                   storedFlag, currentScreen, demoMode, locationChecked,
                   showProviderMovement, selectedProvider, providers,
                   hotspots, loading, geoPending, provFetches, hotFetches,
                   splashTimer, subs, simTimers, store, notes, simBatch,
                   verdict, lastDemoAction>>

\* error callback of getUserLocation (App.tsx:788-792)
LocateError ==
    /\ locPending > 0
    /\ locPending' = locPending - 1
    /\ userLocation' = TRICHY_CENTER
    /\ lastEvent' = Event("LocateError", "", NoPosition, "")
    /\ checkRan' = FALSE
    /\ UNCHANGED <<probe, provReads,
                   mounted, demoParam, geoSupported, storedFlag, currentScreen,
                   demoMode, locationChecked, showProviderMovement,
                   selectedProvider, providers, hotspots, loading, geoPending,
                   provFetches, hotFetches, splashTimer, subs, simTimers,
                   store, notes, simBatch, verdict, lastDemoAction>>

(***************************************************************************)
(* Page reload: every in-memory value is re-created, localStorage is kept  *)
(***************************************************************************)
Relaunch(param, supported) ==
    /\ mounted
    /\ mounted' = FALSE
    /\ demoParam' = param
    /\ geoSupported' = supported
    /\ currentScreen' = "checking"
    /\ demoMode' = FALSE
    /\ locationChecked' = FALSE
    /\ showProviderMovement' = FALSE
    /\ selectedProvider' = NoProvider
    /\ providers' = {}
    /\ hotspots' = {}
    /\ loading' = TRUE
    /\ geoPending' = <<>>
    /\ provFetches' = 0
    /\ hotFetches' = 0
    /\ splashTimer' = FALSE
    /\ subs' = 0
    /\ simTimers' = 0
    /\ userLocation' = NoPosition
    /\ locPending' = 0
    /\ notes' = 0
    /\ simBatch' = <<>>
    /\ checkRan' = FALSE
    /\ verdict' = "none"
    /\ lastEvent' = Event("Relaunch", "", NoPosition, "")
    /\ provReads' = <<>>
    /\ UNCHANGED <<probe, storedFlag, store, lastDemoAction>>

Next ==
    \/ Mount
    \/ \E i \in 1..MaxInFlight, pos \in Positions : GeoSuccess(i, pos)
    \/ \E i \in 1..MaxInFlight, code \in GeoErrorCodes : GeoError(i, code)
    \/ enableDemoMode
    \/ exitDemoMode
    \/ \E screen \in Screens : goToScreen(screen)
    \/ \E provider \in providers : bookRide(provider)
    \/ SplashTimeout
    \/ \E ok \in BOOLEAN : fetchProvidersDone(ok)
    \/ \E ok \in BOOLEAN : fetchHotspotsDone(ok)
    \/ \E p \in StoreProviders : StoreChange(p, store[p].is_online)
    \/ Notify
    \/ SimTick
    \/ \E ok \in BOOLEAN, d \in NoDrift : SimWrite(ok, d)
    \/ LocateMe
    \/ \E pos \in LocatePositions : LocateSuccess(pos)
    \/ LocateError
    \/ \E param \in BOOLEAN, supported \in BOOLEAN : Relaunch(param, supported)

Spec == Init /\ [][Next]_vars

\* One launch, from page load on, with a quiet feed.
LaunchNext ==
    \/ Mount
    \/ \E i \in 1..MaxInFlight, pos \in Positions : GeoSuccess(i, pos)
    \/ \E i \in 1..MaxInFlight, code \in GeoErrorCodes : GeoError(i, code)
    \/ enableDemoMode
    \/ exitDemoMode
    \/ \E screen \in Screens : goToScreen(screen)
    \/ \E provider \in providers : bookRide(provider)
    \/ SplashTimeout
    \/ \E ok \in BOOLEAN : fetchProvidersDone(ok)
    \/ \E ok \in BOOLEAN : fetchHotspotsDone(ok)
    \/ \E pos \in LocatePositions : LocateSuccess(pos)
    \/ LocateError

\* React runs the mount effect after the first render, and the geolocation
\* provider invokes one of the two callbacks of every request (timeout 5000)
StartupSpec ==
    /\ Init /\ [][LaunchNext]_vars
    /\ WF_vars(Mount)
    /\ WF_vars(\E i \in 1..MaxInFlight :
                  \/ \E pos \in Positions : GeoSuccess(i, pos)
                  \/ \E code \in GeoErrorCodes : GeoError(i, code))

\* The live feed after a demo launch on a device without geolocation: other
\* clients switch providers on and off and the simulator moves them, while
\* the user navigates; the gate stays open.
FeedInit == Init /\ demoParam /\ ~geoSupported /\ ~storedFlag

\* two of the draws of the simulator: no move, and a move on both axes
FeedDeltas == {d \in Deltas : d.lat = -d.lng /\ d.lat >= 0}

FeedNext ==
    \/ Mount
    \/ \E screen \in Screens : goToScreen(screen)
    \/ SplashTimeout
    \/ \E ok \in BOOLEAN : fetchProvidersDone(ok)
    \/ \E ok \in BOOLEAN : fetchHotspotsDone(ok)
    \/ \E p \in StoreProviders, online \in BOOLEAN : StoreChange(p, online)
    \/ Notify
    \/ SimTick
    \/ \E ok \in BOOLEAN, d \in FeedDeltas : SimWrite(ok, d)

FeedSpec == FeedInit /\ [][FeedNext]_vars

\* The same feed while the channel delivers nothing: changes are committed
\* and notifications are under way, but no subscription callback has run.
SilentNext ==
    \/ Mount
    \/ \E screen \in Screens : goToScreen(screen)
    \/ SplashTimeout
    \/ \E ok \in BOOLEAN : fetchProvidersDone(ok)
    \/ \E ok \in BOOLEAN : fetchHotspotsDone(ok)
    \/ \E p \in StoreProviders, online \in BOOLEAN : StoreChange(p, online)
    \/ SimTick
    \/ \E ok \in BOOLEAN, d \in FeedDeltas : SimWrite(ok, d)

SilentSpec == FeedInit /\ [][SilentNext]_vars

\* Booking after a demo launch, between two ticks of the simulator: the user
\* navigates and books while other clients switch providers on and off.
BookingNext ==
    \/ Mount
    \/ \E screen \in Screens : goToScreen(screen)
    \/ \E provider \in providers : bookRide(provider)
    \/ SplashTimeout
    \/ \E ok \in BOOLEAN : fetchProvidersDone(ok)
    \/ \E ok \in BOOLEAN : fetchHotspotsDone(ok)
    \/ \E p \in StoreProviders, online \in BOOLEAN : StoreChange(p, online)
    \/ Notify

BookingSpec == FeedInit /\ [][BookingNext]_vars

\* The program while the feed is quiet (no row of the store changes, no
\* simulation tick is due) and the Locate Me button is left alone.
QuietNext ==
    \/ Mount
    \/ \E i \in 1..MaxInFlight, pos \in Positions : GeoSuccess(i, pos)
    \/ \E i \in 1..MaxInFlight, code \in GeoErrorCodes : GeoError(i, code)
    \/ enableDemoMode
    \/ exitDemoMode
    \/ \E screen \in Screens : goToScreen(screen)
    \/ \E provider \in providers : bookRide(provider)
    \/ SplashTimeout
    \/ \E ok \in BOOLEAN : fetchProvidersDone(ok)
    \/ \E ok \in BOOLEAN : fetchHotspotsDone(ok)
    \/ \E pos \in LocatePositions : LocateSuccess(pos)
    \/ LocateError
    \/ \E param \in BOOLEAN, supported \in BOOLEAN : Relaunch(param, supported)

\* the event loop runs a timer callback that is due, and the backing store
\* answers every fetch (with data or with an error)
LiveSpec ==
    /\ Init /\ [][QuietNext]_vars
    /\ WF_vars(SplashTimeout)
    /\ WF_vars(\E ok \in BOOLEAN : fetchProvidersDone(ok))
    /\ WF_vars(\E ok \in BOOLEAN : fetchHotspotsDone(ok))

(***************************************************************************)
(* Properties of the access controller                                     *)
(***************************************************************************)
\* a geolocation request of the access check was issued by the last step
RequestIssued == Len(geoPending) = lastEvent.prevPending + 1
NoRequestIssued == Len(geoPending) = lastEvent.prevPending

\* C1: at launch, a set durable flag or a demo launch parameter takes the
\* startup check from checking straight to splash with demo mode on, and the
\* check issues no geolocation request.
C1_DemoLaunchSkipsGeolocation ==
    (lastEvent.op = "Mount" /\ (lastEvent.prevFlag \/ demoParam))
        => /\ lastEvent.prevScreen = "checking"
           /\ currentScreen = "splash"
           /\ demoMode
           /\ geoPending = <<>>

C1_Witness ==
    /\ lastEvent.op = "Mount"
    /\ lastEvent.prevFlag
    /\ ~demoParam
    /\ geoSupported
    /\ currentScreen = "splash"
    /\ demoMode

\* C2: a device position obtained by the access check leads to splash with
\* demo mode off exactly when its distance to the centre is at most the
\* radius (the boundary included), and to blocked otherwise.
C2_PositionDecidesScreen ==
    lastEvent.op = "GeoSuccess"
        => IF DistanceToCentre(lastEvent.pos) <= TRICHY_RADIUS_KM * 100
           THEN currentScreen = "splash" /\ ~demoMode
           ELSE currentScreen = "blocked"

C2_Witness ==
    /\ lastEvent.op = "GeoSuccess"
    /\ DistanceToCentre(lastEvent.pos) = TRICHY_RADIUS_KM * 100
    /\ currentScreen = "splash"
    /\ ~demoMode

\* C3: without a demo override, every location failure of the access check
\* (error callback with any code, or geolocation unsupported) leads to the
\* blocked screen.
C3_FailureBlocks ==
    /\ lastEvent.op = "GeoError" => currentScreen = "blocked"
    /\ (/\ lastEvent.op = "Mount"
        /\ ~geoSupported
        /\ ~demoParam
        /\ ~lastEvent.prevFlag) => currentScreen = "blocked"
    /\ (/\ lastEvent.op = "exitDemoMode"
        /\ ~geoSupported
        /\ ~demoParam) => currentScreen = "blocked"

C3_Witness ==
    /\ lastEvent.op = "GeoError"
    /\ lastEvent.arg = "TIMEOUT"
    /\ lastEvent.prevScreen = "checking"
    /\ currentScreen = "blocked"

\* C4: the demo opt-in on the blocked screen sets the durable flag, turns
\* demo mode on and makes splash the active screen in one step, and issues
\* no geolocation request.
C4_OptInFromBlocked ==
    lastEvent.op = "enableDemoMode"
        => /\ lastEvent.prevScreen = "blocked"
           /\ storedFlag
           /\ demoMode
           /\ currentScreen = "splash"
           /\ NoRequestIssued

C4_Witness ==
    /\ lastEvent.op = "enableDemoMode"
    /\ ~lastEvent.prevFlag
    /\ ~lastEvent.prevDemo
    /\ storedFlag
    /\ currentScreen = "splash"

\* C5: however demo mode was entered, exit-demo leaves the durable flag
\* cleared and demo mode off and issues a fresh geolocation request (where
\* geolocation is supported).
C5_ExitClearsAndRechecks ==
    (lastEvent.op = "exitDemoMode" /\ geoSupported)
        => /\ ~storedFlag
           /\ ~demoMode
           /\ RequestIssued

\* C6: after a sequence of opt-in and exit-demo actions, a relaunch without
\* the launch parameter enters demo mode without a geolocation request
\* exactly when the last of those actions was an opt-in.
C6_RelaunchFollowsLastAction ==
    (lastEvent.op = "Mount" /\ ~demoParam /\ lastDemoAction # "none")
        => ((demoMode /\ currentScreen = "splash" /\ geoPending = <<>>)
              <=> lastDemoAction = "optin")

\* C7: a launch with the demo parameter and no durable flag, and a launch
\* with the durable flag and no parameter, reach the same state after the
\* startup check: splash, demo mode on, durable flag set, no geolocation
\* request, and the same values of every other in-memory field.
C7_ParamEquivalentToFlag ==
    (/\ lastEvent.op = "Mount"
     /\ demoParam # lastEvent.prevFlag)
        => /\ currentScreen = "splash"
           /\ demoMode
           /\ storedFlag
           /\ locationChecked
           /\ geoPending = <<>>
           /\ splashTimer
           /\ ~showProviderMovement
           /\ selectedProvider = NoProvider
           /\ providers = {}
           /\ hotspots = {}
           /\ loading
           /\ subs = 1
           /\ simTimers = 0
           /\ userLocation = NoPosition
           /\ locPending = 0
           /\ notes = 0
           /\ simBatch = <<>>
           /\ provFetches = 1
           /\ hotFetches = 1

C7_Witness ==
    /\ lastEvent.op = "Mount"
    /\ demoParam
    /\ ~lastEvent.prevFlag
    /\ storedFlag
    /\ currentScreen = "splash"

\* C8: on every screen past the gate access is granted: demo mode is on, or
\* the most recently requested location check has completed inside the
\* service area and no re-check is pending.
C8_PastGateIsGranted ==
    currentScreen \in PastGate
        => \/ demoMode
           \/ (geoPending = <<>> /\ verdict = "inside")

\* C9: at most one geolocation request of the access check is in flight.
C9_OneRequestInFlight == Len(geoPending) <= 1

C9_Witness ==
    /\ Len(geoPending) = 1
    /\ lastEvent.op = "exitDemoMode"
    /\ lastDemoAction = "exit"
    /\ verdict # "none"

\* C10: a response of the access check whose request was issued on a screen
\* other than the one now active does not change the active screen.
C10_StaleResponseIgnored ==
    (/\ lastEvent.op \in {"GeoSuccess", "GeoError"}
     /\ lastEvent.issuedOn # lastEvent.prevScreen)
        => currentScreen = lastEvent.prevScreen

(***************************************************************************)
(* C11: the access check runs automatically once per launch, in the mount  *)
(* step, which is taken only while the application is not yet mounted and  *)
(* is not repeated until the next launch; after it checkLocation runs only *)
(* in exitDemoMode, never in a navigation, feed, timer or locate step.     *)
(***************************************************************************)
C11_CheckOnlyAtStartupOrExit ==
    /\ [](checkRan => lastEvent.op \in {"Mount", "exitDemoMode"})
    /\ [][lastEvent'.op = "Mount" => ~mounted /\ mounted' /\ checkRan']_vars
    /\ [][mounted /\ ~mounted' => lastEvent'.op = "Relaunch"]_vars

C11_Witness ==
    /\ checkRan
    /\ lastEvent.op = "exitDemoMode"
    /\ lastEvent.prevScreen = "map"
    /\ simTimers > 0
    /\ userLocation # NoPosition

(***************************************************************************)
(* C12: screen changes made by navigation or by the splash timer           *)
(***************************************************************************)
NavOps == {"goToScreen", "bookRide", "enableDemoMode", "SplashTimeout"}

\* the last step changed the screen, by navigation, by the splash timer or
\* out of checking
NavStep ==
    /\ lastEvent.op # "Relaunch"
    /\ lastEvent.prevScreen # currentScreen
    /\ lastEvent.op \in NavOps \/ lastEvent.prevScreen = "checking"

ClaimedEdges ==
    { <<"checking", "blocked">>, <<"checking", "splash">>,
      <<"blocked", "splash">>, <<"splash", "onboarding">>,
      <<"onboarding", "map">>, <<"map", "destination">>,
      <<"destination", "map">>, <<"destination", "providers">>,
      <<"map", "providers">>, <<"providers", "confirmation">>,
      <<"confirmation", "map">> }

\* C12 as stated: every such change is one of the eleven listed edges, so
\* confirmation is entered only from providers
C12_OnlyClaimedEdges ==
    NavStep => <<lastEvent.prevScreen, currentScreen>> \in ClaimedEdges

\* C12 amended: every such change is one of the eleven listed edges or
\* map -> confirmation (booking from a provider marker) or
\* providers -> destination (back arrow); confirmation is entered by bookRide
\* only, from providers or from map
C12_NavigationEdges ==
    /\ NavStep =>
         <<lastEvent.prevScreen, currentScreen>> \in
            ClaimedEdges \cup { <<"map", "confirmation">>,
                                <<"providers", "destination">> }
    /\ NavStep /\ currentScreen = "confirmation" =>
         /\ lastEvent.op = "bookRide"
         /\ lastEvent.prevScreen \in {"providers", "map"}

C12_Witness ==
    /\ NavStep
    /\ lastEvent.op = "bookRide"
    /\ lastEvent.prevScreen = "map"
    /\ currentScreen = "confirmation"

(***************************************************************************)
(* C13: within a launch, a step taken on the blocked screen leaves the     *)
(* screen blocked, whatever the step (timer, feed, fetch completion,       *)
(* locate response), unless it is the demo opt-in, which leads to splash.  *)
(***************************************************************************)
C13_BlockedUntilOptIn ==
    lastEvent.prevScreen = "blocked" /\ lastEvent.op # "Relaunch" =>
        \/ currentScreen = "blocked"
        \/ lastEvent.op = "enableDemoMode" /\ currentScreen = "splash"

C13_Witness ==
    /\ lastEvent.prevScreen = "blocked"
    /\ currentScreen = "blocked"
    /\ lastEvent.op = "LocateSuccess"
    /\ simBatch # <<>>
    /\ provFetches > 0

(***************************************************************************)
(* C14: once splash is the active screen, the screen becomes onboarding    *)
(* (the splash timer firing), unless splash is left first by an outcome of *)
(* the access check or by a reload; the timer is armed only on splash and  *)
(* its callback runs only there.                                           *)
(***************************************************************************)
LeftSplashOtherwise ==
    /\ lastEvent.prevScreen = "splash"
    /\ currentScreen # "splash"
    /\ lastEvent.op \in {"GeoSuccess", "GeoError", "exitDemoMode", "Relaunch"}

C14_SplashAdvances ==
    /\ (currentScreen = "splash") ~>
           (currentScreen = "onboarding" \/ LeftSplashOtherwise)
    /\ [](splashTimer => currentScreen = "splash")
    /\ [][lastEvent'.op = "SplashTimeout" =>
            currentScreen = "splash" /\ currentScreen' = "onboarding"]_vars

C14_Witness ==
    /\ lastEvent.op = "SplashTimeout"
    /\ lastEvent.prevScreen = "splash"
    /\ currentScreen = "onboarding"
    /\ ~splashTimer

(***************************************************************************)
(* C15: whenever a movement-simulation timer is armed, the active screen   *)
(* is map.                                                                 *)
(***************************************************************************)
C15_SimulatorOnlyOnMap == simTimers > 0 => currentScreen = "map"

(***************************************************************************)
(* C16: in every reachable state at most one movement-simulation timer is  *)
(* armed and at most one provider-change subscription is open.             *)
(***************************************************************************)
C16_AtMostOneTimerAndSubscription == simTimers <= 1 /\ subs <= 1

\* back on map after a booking, the snapshot just replaced
C16_Witness ==
    /\ currentScreen = "map"
    /\ selectedProvider # NoProvider
    /\ lastEvent.op = "fetchProvidersDone"
    /\ lastEvent.arg = "ok"
    /\ simTimers = 1
    /\ subs = 1

(***************************************************************************)
(* C17: exactly one provider-change subscription is open when the active   *)
(* screen is splash, onboarding, map, destination, providers or            *)
(* confirmation, and none when it is checking or blocked.                  *)
(***************************************************************************)
C17_SubscribedExactlyPastGate ==
    subs = IF currentScreen \in PastGate THEN 1 ELSE 0

\* the gate closed again: blocked entered from a screen past the gate
C17_Witness ==
    /\ currentScreen = "blocked"
    /\ lastEvent.prevScreen \in PastGate
    /\ subs = 0

(***************************************************************************)
(* C18: a delivered change notification issues exactly one provider fetch  *)
(* and no hotspot fetch and changes neither snapshot by itself; a provider *)
(* fetch that succeeds replaces the provider snapshot by its result, the   *)
(* online rows of the store, and leaves the hotspot snapshot alone.        *)
(***************************************************************************)
C18_NotificationRefetchesProviders ==
    /\ [][lastEvent'.op = "Notify" =>
            /\ provFetches' = provFetches + 1
            /\ hotFetches' = hotFetches
            /\ hotspots' = hotspots
            /\ providers' = providers]_vars
    /\ [][lastEvent'.op = "fetchProvidersDone" /\ lastEvent'.arg = "ok" =>
            /\ providers' = OnlineRows(store)
            /\ hotspots' = hotspots
            /\ hotFetches' = hotFetches]_vars

\* a notification delivered while the snapshot is behind the store
C18_Witness ==
    /\ lastEvent.op = "Notify"
    /\ provFetches = 1
    /\ hotFetches = 0
    /\ hotspots # {}
    /\ providers # {}
    /\ providers # OnlineRows(store)

(***************************************************************************)
(* C19: the completion of a hotspot fetch with an error leaves the hotspot *)
(* snapshot, the provider snapshot and the active screen as they were, and *)
(* so does the completion of a provider fetch with an error.               *)
(***************************************************************************)
C19_FailedFetchKeepsSnapshots ==
    [][/\ lastEvent'.op \in {"fetchHotspotsDone", "fetchProvidersDone"}
       /\ lastEvent'.arg = "error"
       => /\ hotspots' = hotspots
          /\ providers' = providers
          /\ currentScreen' = currentScreen]_vars

\* a hotspot fetch failed after an earlier one had filled the snapshot
C19_Witness ==
    /\ lastEvent.op = "fetchHotspotsDone"
    /\ lastEvent.arg = "error"
    /\ hotspots # {}
    /\ providers # {}

(***************************************************************************)
(* C20: the loading flag is set until the application is mounted; every    *)
(* completion of a hotspot fetch, with data or with an error, leaves it    *)
(* clear; once clear it is not set again before the next launch; and when  *)
(* the screen is past the gate the flag becomes clear (the hotspot fetch   *)
(* issued on passing the gate completing), unless the page is reloaded     *)
(* first.                                                                  *)
(***************************************************************************)
C20_LoadingClearedOnce ==
    /\ [](~mounted => loading)
    /\ [][lastEvent'.op = "fetchHotspotsDone" => ~loading']_vars
    /\ [][~loading /\ loading' => lastEvent'.op = "Relaunch"]_vars
    /\ (currentScreen \in PastGate) ~> (~loading \/ ~mounted)

\* the first hotspot fetch failed and the flag is clear all the same
C20_Witness ==
    /\ lastEvent.op = "fetchHotspotsDone"
    /\ lastEvent.arg = "error"
    /\ hotspots = {}
    /\ ~loading
    /\ currentScreen \in PastGate

(***************************************************************************)
(* C21: a simulation tick takes every row of the snapshot as its batch;    *)
(* every write attempt, failed or not, is for the first row of the batch   *)
(* and leaves all the other rows still to be written; nothing but a write  *)
(* attempt (or a reload) takes a row off a running batch.                  *)
(***************************************************************************)
WriteOps == {"SimWrite", "SimWriteError"}

C22_MoveVisibleOnlyAfterNotification ==
    \A r \in providers : r.lat = 0 /\ r.lng = 0

(***************************************************************************)
(* C23: whenever the active screen is not confirmation, no provider is     *)
(* selected.                                                               *)
(***************************************************************************)
C23_SelectionOnlyOnConfirmation ==
    currentScreen # "confirmation" => selectedProvider = NoProvider

(***************************************************************************)
(* C24: a booking selects the provider it was passed, a row of the current *)
(* snapshot, and shows confirmation; the selection changes in no other     *)
(* step of a launch and confirmation is entered by no other step, so on    *)
(* confirmation the selected provider is the one of the latest booking.    *)
(***************************************************************************)
C24_ConfirmationShowsLatestBooking ==
    /\ [][lastEvent'.op = "bookRide" =>
            /\ selectedProvider' \in providers
            /\ selectedProvider'.id = lastEvent'.arg
            /\ currentScreen' = "confirmation"]_vars
    /\ [][selectedProvider' # selectedProvider =>
            lastEvent'.op \in {"bookRide", "Relaunch"}]_vars
    /\ [][currentScreen # "confirmation" /\ currentScreen' = "confirmation"
            => lastEvent'.op = "bookRide"]_vars
    /\ [](currentScreen = "confirmation" => selectedProvider # NoProvider)

\* p2 booked while p1 was still selected from the booking before
C24_Witness ==
    /\ lastEvent.op = "bookRide"
    /\ lastEvent.arg = "p2"
    /\ lastEvent.prevSelected = "p1"
    /\ lastEvent.prevScreen = "map"
    /\ selectedProvider.id = "p2"
    /\ currentScreen = "confirmation"

(***************************************************************************)
(* C25: a booking step issues no hotspot or provider fetch, starts no      *)
(* write, changes no row of the backing store and leaves the number of     *)
(* open subscriptions as it was.                                           *)
(***************************************************************************)
C25_BookingIsClientSide ==
    [][lastEvent'.op = "bookRide" =>
         /\ provFetches' = provFetches
         /\ hotFetches' = hotFetches
         /\ simBatch' = simBatch
         /\ store' = store
         /\ subs' = subs]_vars

(***************************************************************************)
(* C26: within a launch, whatever the stored flag, the launch parameter,   *)
(* the geolocation support and the answer to the request, the checking     *)
(* screen is followed by splash or blocked.                                *)
(***************************************************************************)
C26_StartupCheckTerminates ==
    (currentScreen = "checking") ~> (currentScreen \in {"splash", "blocked"})

\* the request of the startup check timed out
C26_Witness ==
    /\ lastEvent.op = "GeoError"
    /\ lastEvent.arg = "TIMEOUT"
    /\ lastEvent.prevScreen = "checking"
    /\ currentScreen = "blocked"

Measure ==
    /\ probe.ab = NotMeasured
    /\ probe' =
         [probe EXCEPT
            !.ab = calculateDistance(probe.a.lat, probe.a.lng,
                                     probe.b.lat, probe.b.lng),
            !.ba = calculateDistance(probe.b.lat, probe.b.lng,
                                     probe.a.lat, probe.a.lng),
            !.aa = calculateDistance(probe.a.lat, probe.a.lng,
                                     probe.a.lat, probe.a.lng),
            !.inside = IsWithinServiceArea(
                           calculateDistance(probe.a.lat, probe.a.lng,
                                             TRICHY_CENTER.lat,
                                             TRICHY_CENTER.lng))]
    /\ UNCHANGED <<mounted, demoParam, geoSupported, storedFlag,
                   currentScreen, demoMode, locationChecked,
                   showProviderMovement, selectedProvider, providers,
                   hotspots, loading, geoPending, provFetches, hotFetches,
                   splashTimer, subs, simTimers, userLocation, locPending,
                   store, notes, simBatch, checkRan, verdict,
                   lastDemoAction, lastEvent, provReads>>

\* every pair of probe points, nothing measured yet
DistInit ==
    /\ AppInit
    /\ demoParam /\ ~geoSupported /\ ~storedFlag
    /\ \E a \in ProbePoints, b \in ProbePoints :
         probe = [NoProbe EXCEPT !.a = a, !.b = b]

DistNext == Measure

DistSpec == DistInit /\ [][DistNext]_vars

\* C28: calculateDistance gives the same value with its two points
\* exchanged and gives 0 on two identical points, and the access check
\* finds a device located exactly at the service-area centre inside the
\* service area
C28_DistanceSymmetricZeroOnSelf ==
    probe.ab # NotMeasured =>
        /\ probe.ab = probe.ba
        /\ probe.aa = 0
        /\ (probe.a = TRICHY_CENTER => probe.inside)

C28_Witness ==
    /\ probe.a = TRICHY_CENTER
    /\ probe.b = [lat |-> 129716, lng |-> 775946]
    /\ probe.ab = probe.ba
    /\ probe.ab > RADIUS_CKM
    /\ probe.aa = 0
    /\ probe.inside

\* C29: the provider snapshot changes only when a provider fetch completes
\* with data (or the page is reloaded, which empties it); the snapshot such
\* a completion leaves is the complete result of that one fetch: it holds a
\* row for every provider that is online in the store as the fetch reads
\* it, every row of it is the store's row of an online provider, and no row
\* of the snapshot it replaces survives; so the snapshot never holds two
\* rows of one provider
C29_SnapshotIsOneFetchResult ==
    /\ [][providers' # providers
            => \/ lastEvent'.op = "fetchProvidersDone" /\ lastEvent'.arg = "ok"
               \/ lastEvent'.op = "Relaunch" /\ providers' = {}]_vars
    /\ [][lastEvent'.op = "fetchProvidersDone" /\ lastEvent'.arg = "ok"
            => /\ \A r \in providers' :
                    /\ r.id \in StoreProviders
                    /\ store[r.id].is_online
                    /\ r.lat = store[r.id].lat
                    /\ r.lng = store[r.id].lng
               /\ \A p \in StoreProviders :
                    store[p].is_online => \E r \in providers' : r.id = p]_vars
    /\ [](\A r1 \in providers, r2 \in providers : r1.id = r2.id => r1 = r2)

\* a fetch result with both providers, the first at a simulated position,
\* has replaced the result the simulator took that provider from
C29_Witness ==
    /\ lastEvent.op = "fetchProvidersDone"
    /\ lastEvent.arg = "ok"
    /\ Cardinality(providers) = 2
    /\ \E r \in providers : r.id = "p1" /\ r.lat # 0

\* C30: the step that passes the gate (the screen leaves Checking or
\* Blocked for a screen past the gate) issues exactly one hotspot fetch and
\* one provider fetch, and a later change of the active screen made by
\* navigation, by a booking or by the splash timeout issues no hotspot or
\* provider fetch
C30_FetchOnlyOnPassingGate ==
    /\ [][/\ currentScreen \in {"checking", "blocked"}
          /\ currentScreen' \in PastGate
          => /\ provFetches' = provFetches + 1
             /\ hotFetches' = hotFetches + 1]_vars
    /\ [][/\ lastEvent'.op \in {"goToScreen", "bookRide", "SplashTimeout"}
          /\ currentScreen' # currentScreen
          => /\ provFetches' <= provFetches
             /\ hotFetches' <= hotFetches]_vars

\* C31: a simulation tick takes one row for each provider of the snapshot
\* and no other row; a successful write changes the store's row of the
\* provider at the head of the tick's batch and no other row, and the
\* latitude and the longitude it writes differ from that provider's
\* snapshot latitude and longitude by at most 0.001 degree; a tick whose
\* writes all succeed has ended with one write for each of its rows
C31_OneWritePerSnapshotProvider ==
    /\ [][lastEvent'.op = "SimTick"
            => /\ Len(simBatch') = Cardinality(providers)
               /\ \A i \in 1..Len(simBatch') : simBatch'[i] \in providers
               /\ \A i \in 1..Len(simBatch'), j \in 1..Len(simBatch') :
                    simBatch'[i].id = simBatch'[j].id => i = j]_vars
    /\ [][lastEvent'.op = "SimWrite"
            => /\ simBatch # <<>>
               /\ LET row == Head(simBatch)
                  IN  /\ store'[row.id].lat - row.lat \in -1..1
                      /\ store'[row.id].lng - row.lng \in -1..1
                      /\ \A p \in StoreProviders \ {row.id} :
                           store'[p] = store[p]
               /\ simBatch' = Tail(simBatch)]_vars
    /\ [][store' # store
            => lastEvent'.op \in {"SimWrite", "StoreChange", "Relaunch"}]_vars

\* the second write of a tick on a snapshot of two providers has moved the
\* second provider after the first
C31_Witness ==
    /\ lastEvent.op = "SimWrite"
    /\ lastEvent.arg = "p2"
    /\ simBatch = <<>>
    /\ Cardinality(providers) = 2
    /\ store["p1"].lat # 0
    /\ store["p2"].lat # 0

\* C32: whenever the active screen is map and the provider snapshot is not
\* empty, exactly one movement-simulation timer is armed; a goToScreen to
\* map leaves the screen on map with the simulator switched on; and the
\* replacement of the snapshot never leaves a second timer armed
C32_OneTimerOnMap ==
    /\ (currentScreen = "map" /\ providers # {} => simTimers = 1)
    /\ (currentScreen = "map" => showProviderMovement)
    /\ (lastEvent.op = "goToScreen" /\ lastEvent.arg = "map"
          => /\ lastEvent.prevScreen
                  \in {"onboarding", "destination", "confirmation"}
             /\ currentScreen = "map"
             /\ showProviderMovement)
    /\ (lastEvent.op = "fetchProvidersDone" => simTimers <= 1)

\* map entered from destination with providers in the snapshot
C32_Witness ==
    /\ lastEvent.op = "goToScreen"
    /\ lastEvent.arg = "map"
    /\ lastEvent.prevScreen = "destination"
    /\ providers # {}
    /\ simTimers = 1

\* the step has sent an update to the backing store: the tick sends the
\* update of its first row, and the return of an awaited update sends the
\* update of the next row (App.tsx:974-991)
UpdateIssued ==
    /\ lastEvent.op \in {"SimTick"} \cup WriteOps
    /\ simBatch # <<>>

\* C33: a provider location update is sent to the backing store only while
\* the simulator is switched on: after a goToScreen away from map has
\* switched it off, no update is sent until map is entered again, also
\* when a tick had started its batch before
C33_NoWriteAfterDeactivation == UpdateIssued => showProviderMovement

(***************************************************************************)
(* Provider fetches whose responses return in any order                    *)
(***************************************************************************)
\* the backing store runs the query of a fetchProviders call
\* (App.tsx:962-965); the result is on its way back
fetchProvidersRead ==
    /\ provFetches > 0
    /\ Len(provReads) < MaxReads
    /\ provFetches' = provFetches - 1
    /\ provReads' = Append(provReads, OnlineRows(store))
    /\ lastEvent' = Event("fetchProvidersRead", "", NoPosition, "")
    /\ checkRan' = FALSE
    /\ UNCHANGED <<probe, mounted, demoParam, geoSupported, storedFlag,
                   currentScreen, demoMode, locationChecked,
                   showProviderMovement, selectedProvider, providers,
                   hotspots, loading, geoPending, hotFetches, splashTimer,
                   subs, simTimers, userLocation, locPending, store, notes,
                   simBatch, verdict, lastDemoAction>>

\* a result arrives, whichever was read first: setProviders(data)
\* (App.tsx:967-968)
fetchProvidersDeliver(i) ==
    /\ i \in 1..Len(provReads)
    /\ provReads' = RemoveAt(provReads, i)
    /\ providers' = provReads[i]
    /\ MoveEffect(showProviderMovement, provReads[i], TRUE)
    /\ lastEvent' = Event("fetchProvidersDone", "ok", NoPosition, "")
    /\ checkRan' = FALSE
    /\ UNCHANGED <<probe, mounted, demoParam, geoSupported, storedFlag,
                   currentScreen, demoMode, locationChecked,
                   showProviderMovement, selectedProvider, hotspots, loading,
                   geoPending, provFetches, hotFetches, splashTimer, subs,
                   userLocation, locPending, store, notes, simBatch, verdict,
                   lastDemoAction>>

\* A demo launch on a device without geolocation; other clients switch a
\* provider on and off; every provider fetch succeeds, and the responses of
\* fetches under way at the same time return in any order.
RaceNext ==
    \/ Mount
    \/ SplashTimeout
    \/ \E ok \in BOOLEAN : fetchHotspotsDone(ok)
    \/ \E p \in StoreProviders, online \in BOOLEAN : StoreChange(p, online)
    \/ Notify
    \/ fetchProvidersRead
    \/ \E i \in 1..MaxReads : fetchProvidersDeliver(i)

RaceSpec == FeedInit /\ [][RaceNext]_vars

\* C34: when a subscription is open, no change notification is on its way,
\* and no provider fetch is under way (every one has returned its result),
\* the provider snapshot is the store's set of online providers
C34_SnapshotMatchesStoreWhenSettled ==
    /\ subs > 0
    /\ notes = 0
    /\ provFetches = 0
    /\ provReads = <<>>
    => providers = OnlineRows(store)

\* C35: once the component has mounted and run its startup check, the
\* in-memory demo-mode indicator is on exactly when the durable demo flag
\* is set, whatever opt-ins, exit-demos, access-check responses and
\* reloads have happened
C35_IndicatorMatchesDurableFlag == mounted => (demoMode <=> storedFlag)

\* an exit-demo has cleared a flag that was set, the access check decided
C35_Witness ==
    /\ lastEvent.op = "exitDemoMode"
    /\ lastEvent.prevFlag
    /\ lastEvent.prevDemo
    /\ locationChecked
    /\ ~demoMode
    /\ ~storedFlag

\* C36: whenever the active screen is confirmation a provider is selected,
\* and no step that stays on confirmation changes the selected provider:
\* a replacement of the provider snapshot leaves the selection as the
\* booking stored it
C36_SelectionKeptOnConfirmation ==
    /\ [](currentScreen = "confirmation" => selectedProvider.id # "null")
    /\ [][currentScreen = "confirmation" /\ currentScreen' = "confirmation"
            => selectedProvider' = selectedProvider]_vars
    /\ [][lastEvent'.op = "fetchProvidersDone"
            => selectedProvider' = selectedProvider]_vars

\* on confirmation the booked provider has gone offline and a new snapshot
\* without it has arrived
C36_Witness ==
    /\ currentScreen = "confirmation"
    /\ lastEvent.op = "fetchProvidersDone"
    /\ lastEvent.arg = "ok"
    /\ selectedProvider.id = "p2"
    /\ selectedProvider \notin providers
    /\ providers # {}

\* Launches of every kind with the map's locate request issued on entering
\* map and by the Locate Me button; no reload, no live feed.
LocateNext ==
    \/ Mount
    \/ \E i \in 1..MaxInFlight, pos \in Positions : GeoSuccess(i, pos)
    \/ \E i \in 1..MaxInFlight, code \in GeoErrorCodes : GeoError(i, code)
    \/ enableDemoMode
    \/ exitDemoMode
    \/ \E screen \in Screens : goToScreen(screen)
    \/ \E provider \in providers : bookRide(provider)
    \/ SplashTimeout
    \/ \E ok \in BOOLEAN : fetchProvidersDone(ok)
    \/ \E ok \in BOOLEAN : fetchHotspotsDone(ok)
    \/ LocateMe
    \/ \E pos \in LocatePositions : LocateSuccess(pos)
    \/ LocateError

LocateSpec == Init /\ [][LocateNext]_vars

LocateOps == {"LocateMe", "LocateSuccess", "LocateError"}

\* C37: the success of the map's locate request stores the device
\* position, its failure stores the service-area centre, and so does a
\* Locate Me press on a device without geolocation support; a Locate Me
\* press and both callbacks leave the active screen, the demo mode, the
\* durable flag, the location-check flag and the access verdict as they
\* were; and the stored user location is changed by nothing but the locate
\* request
C37_LocateOnlySetsUserLocation ==
    /\ [](lastEvent.op = "LocateSuccess" => userLocation = lastEvent.pos)
    /\ [](lastEvent.op = "LocateError" => userLocation = TRICHY_CENTER)
    /\ [](lastEvent.op = "LocateMe" /\ ~geoSupported
            => userLocation = TRICHY_CENTER)
    /\ [][lastEvent'.op \in LocateOps
            => /\ currentScreen' = currentScreen
               /\ demoMode' = demoMode
               /\ storedFlag' = storedFlag
               /\ locationChecked' = locationChecked
               /\ verdict' = verdict]_vars
    /\ [][userLocation' # userLocation
            => \/ lastEvent'.op \in LocateOps
               \/ /\ lastEvent'.op = "goToScreen"
                  /\ currentScreen' = "map"
                  /\ userLocation = NoPosition
                  /\ ~geoSupported
                  /\ userLocation' = TRICHY_CENTER]_vars

\* on map the locate request has failed and the centre is stored
C37_Witness ==
    /\ lastEvent.op = "LocateError"
    /\ lastEvent.prevScreen = "map"
    /\ currentScreen = "map"
    /\ userLocation = TRICHY_CENTER
    /\ verdict = "inside"

\* Launches of every kind in which the user never picks "See Rides" on
\* destination: the providers screen is entered only from map, through a
\* hotspot's popup.
HotspotNext ==
    \/ Mount
    \/ \E i \in 1..MaxInFlight, pos \in Positions : GeoSuccess(i, pos)
    \/ \E i \in 1..MaxInFlight, code \in GeoErrorCodes : GeoError(i, code)
    \/ enableDemoMode
    \/ exitDemoMode
    \/ \E screen \in IF currentScreen = "destination" THEN {"map"}
                     ELSE Screens : goToScreen(screen)
    \/ \E provider \in providers : bookRide(provider)
    \/ SplashTimeout
    \/ \E ok \in BOOLEAN : fetchProvidersDone(ok)
    \/ \E ok \in BOOLEAN : fetchHotspotsDone(ok)
    \/ \E pos \in LocatePositions : LocateSuccess(pos)
    \/ LocateError

HotspotSpec == Init /\ [][HotspotNext]_vars

\* C38: a goToScreen on providers leads to destination, and no step taken
\* on providers leaves the screen on map
C38_ProvidersBackToDestination ==
    /\ (lastEvent.op = "goToScreen" /\ lastEvent.prevScreen = "providers"
          => currentScreen = "destination")
    /\ (lastEvent.op # "Init" /\ lastEvent.prevScreen = "providers"
          => currentScreen # "map")

\* back from a providers screen that was entered from map
C38_Witness ==
    /\ lastEvent.op = "goToScreen"
    /\ lastEvent.prevScreen = "providers"
    /\ lastEvent.arg = "destination"
    /\ currentScreen = "destination"
    /\ hotspots # {}

\* Launches of every kind with change notifications arriving while the
\* user navigates and the access check answers; no booking, no simulator
\* write, no reload.
GateNext ==
    \/ Mount
    \/ \E i \in 1..MaxInFlight, pos \in Positions : GeoSuccess(i, pos)
    \/ \E i \in 1..MaxInFlight, code \in GeoErrorCodes : GeoError(i, code)
    \/ enableDemoMode
    \/ exitDemoMode
    \/ \E screen \in Screens : goToScreen(screen)
    \/ SplashTimeout
    \/ \E ok \in BOOLEAN : fetchProvidersDone(ok)
    \/ \E ok \in BOOLEAN : fetchHotspotsDone(ok)
    \/ \E p \in StoreProviders : StoreChange(p, store[p].is_online)
    \/ Notify
    \/ \E pos \in LocatePositions : LocateSuccess(pos)
    \/ LocateError

GateSpec == Init /\ [][GateNext]_vars

\* C39: a step that issues a provider fetch or a hotspot fetch ends in a
\* state in which the location check has completed and the active screen
\* is neither checking nor blocked; in particular no step taken on blocked
\* or into blocked issues a fetch
C39_NoFetchBeforeGate ==
    [][provFetches' > provFetches \/ hotFetches' > hotFetches
         => /\ locationChecked'
            /\ currentScreen' \notin {"checking", "blocked"}]_vars

\* the access check has failed and the blocked screen is shown with no
\* fetch issued
C39_Witness ==
    /\ lastEvent.op = "GeoError"
    /\ lastEvent.prevScreen = "checking"
    /\ currentScreen = "blocked"
    /\ locationChecked
    /\ provFetches = 0
    /\ hotFetches = 0
    /\ providers = {}

=============================================================================
